---- MODULE Spec2Model ----
(***************************************************************************)
(* RemotePostgresInstaller: a two-host PostgreSQL installer driven over    *)
(* SSH.  main() parses the host list; run() connects to each host and      *)
(* samples its load, picks the least loaded host, detects its OS family,   *)
(* installs, configures and verifies PostgreSQL on it.                     *)
(*                                                                         *)
(* Texts (command output) are sequences of one-character strings, so that  *)
(* lower(), "in", startswith() and split() are computed and not assumed.   *)
(***************************************************************************)
EXTENDS Integers, Sequences, FiniteSets, TLC

\* ------------------------------------------------------------------ bounds
NumNames == 2      \* distinct host names available on the command line
MaxHosts == 3      \* longest host list main() is given
MaxLoad  == 1      \* largest 1-minute load a host reports (whole units)

\* ------------------------------------------------------------------- texts
Upper == << "A","B","C","D","E","F","G","H","I","J","K","L","M",
            "N","O","P","Q","R","S","T","U","V","W","X","Y","Z" >>
Lower == << "a","b","c","d","e","f","g","h","i","j","k","l","m",
            "n","o","p","q","r","s","t","u","v","w","x","y","z" >>
Digits == << "0","1","2","3","4","5","6","7","8","9" >>

\* str.lower(), one character
LowerChar(c) ==
    IF \E i \in 1..Len(Upper) : Upper[i] = c
    THEN Lower[CHOOSE i \in 1..Len(Upper) : Upper[i] = c]
    ELSE c

\* str.lower()
ToLower(t) == [i \in 1..Len(t) |-> LowerChar(t[i])]

\* s in t
Contains(t, s) ==
    \E i \in 0..(Len(t) - Len(s)) : SubSeq(t, i + 1, i + Len(s)) = s

\* t.startswith(s)
StartsWith(t, s) == Len(t) >= Len(s) /\ SubSeq(t, 1, Len(s)) = s

IsSpace(c) == c \in {" ", "\n", "\t"}

\* t.split(): the fields of t between runs of whitespace
RECURSIVE SplitFrom(_, _, _)
SplitFrom(t, i, cur) ==
    IF i > Len(t) THEN (IF cur = << >> THEN << >> ELSE << cur >>)
    ELSE IF IsSpace(t[i])
         THEN (IF cur = << >> THEN SplitFrom(t, i + 1, << >>)
                              ELSE << cur >> \o SplitFrom(t, i + 1, << >>))
         ELSE SplitFrom(t, i + 1, Append(cur, t[i]))

Split(t) == SplitFrom(t, 1, << >>)

IsDigit(c) == \E i \in 1..Len(Digits) : Digits[i] = c
DigitVal(c) == (CHOOSE i \in 1..Len(Digits) : Digits[i] = c) - 1

RECURSIVE DigitsVal(_)
DigitsVal(f) ==
    IF f = << >> THEN 0
    ELSE 10 * DigitsVal(SubSeq(f, 1, Len(f) - 1)) + DigitVal(f[Len(f)])

\* Loads are pairs <<inf, hundredths>>: <<0, v>> is the finite load v/100 and
\* <<1, 0>> is float('inf').
Finite(v) == << 0, v >>
Inf == << 1, 0 >>
ValueError == << 2, 0 >>

\* float(f) for a field of the form D+, D+., D+.D or D+.DD (/proc/loadavg prints
\* D+.DD), in hundredths; any other field of the sampled outputs raises
\* ValueError.
ParseFloat(f) ==
    LET dot == IF \E i \in 1..Len(f) : f[i] = "."
               THEN CHOOSE i \in 1..Len(f) : f[i] = "." /\ \A j \in 1..(i-1) : f[j] # "."
               ELSE 0
        ip  == IF dot = 0 THEN f ELSE SubSeq(f, 1, dot - 1)
        fp  == IF dot = 0 THEN << >> ELSE SubSeq(f, dot + 1, Len(f))
        fp2 == IF Len(fp) = 0 THEN << "0", "0" >>
               ELSE IF Len(fp) = 1 THEN Append(fp, "0") ELSE fp
    IN  IF /\ ip # << >>
           /\ \A i \in 1..Len(ip) : IsDigit(ip[i])
           /\ Len(fp) <= 2
           /\ \A i \in 1..Len(fp) : IsDigit(fp[i])
        THEN Finite(100 * DigitsVal(ip) + DigitsVal(fp2))
        ELSE ValueError

IsFinite(l) == l[1] = 0

\* a < b on loads
LoadLT(a, b) == a[1] < b[1] \/ (a[1] = b[1] /\ a[2] < b[2])

\* ------------------------------------------------------------- dictionaries
\* A dict is a sequence of <<key, value>> pairs in insertion order.
DictHas(d, k) == \E i \in 1..Len(d) : d[i][1] = k
DictGet(d, k) == d[CHOOSE i \in 1..Len(d) : d[i][1] = k][2]
DictSet(d, k, v) ==
    IF DictHas(d, k)
    THEN [i \in 1..Len(d) |-> IF d[i][1] = k THEN << k, v >> ELSE d[i]]
    ELSE Append(d, << k, v >>)
DictKeys(d) == { d[i][1] : i \in 1..Len(d) }
DictValues(d) == { d[i][2] : i \in 1..Len(d) }

\* a bug min() does not have: replacing the running best on a tie as well
MinReplacesOnTie(a, b) == ~ LoadLT(b, a)

\* the comparison min() uses to replace its running best
MinReplaces(a, b) == LoadLT(a, b)

\* min(loads, key=loads.get): the first key, in insertion order, whose value
\* no other key's value is below.
RECURSIVE PyMinFrom(_, _, _)
PyMinFrom(d, i, best) ==
    IF i > Len(d) THEN best
    ELSE IF MinReplaces(d[i][2], DictGet(d, best))
         THEN PyMinFrom(d, i + 1, d[i][1])
         ELSE PyMinFrom(d, i + 1, best)

PyMin(d) == PyMinFrom(d, 2, d[1][1])

\* ------------------------------------------------- the remote side's answers
AllNames == << "h1", "h2", "h3", "h4" >>
HostNames == { AllNames[i] : i \in 1..NumNames }

None == "None"

\* what client.connect() does: return, or raise one of these
ConnOutcomes ==
    { "ok", "NoValidConnectionsError", "AuthenticationException", "socket.error",
      "SSHException" }

EmptyText == << >>

\* "N.50 0.10": the head of /proc/loadavg on a host whose load is N.50
LoadText(n) == << Digits[n + 1], ".", "5", "0", " ", "0", ".", "1", "0" >>

BlankText == << " " >>
CatErrorText == << "c","a","t",":"," ","N","o"," ","f","i","l","e" >>

LoadStdouts == { LoadText(n) : n \in 0..MaxLoad } \cup { EmptyText, BlankText, CatErrorText }

OsReleaseStdouts ==
    { EmptyText,
      << "I","D","=","d","e","b","i","a","n" >>,
      << "D","e","b","i","a","n" >>,
      << "C","e","n","t","O","S" >>,
      << "A","l","m","a","L","i","n","u","x" >>,
      << "I","D","=","r","h","e","l" >>,
      << "r","h","e","l"," ","D","E","B","I","A","N" >>,
      << "I","D","=","a","r","c","h" >> }

WhichStdouts ==
    { EmptyText,
      << "/","b","i","n","/","x" >>,
      << "w","h","i","c","h",":"," ","n","o" >> }

StderrFailedMixed == << "E",":"," ","F","a","i","l","e","d" >>
StderrErrorLower  == << "e","r","r","o","r",":" >>
StderrErrorUpper  == << "E","R","R","O","R" >>

StderrTexts == { EmptyText, StderrFailedMixed, StderrErrorLower, StderrErrorUpper }

\* error streams of the verify query, which test_postgresql only prints
TestStderrs == { EmptyText, StderrErrorUpper }

StdoutLabelOnly == << "t","e","s","t","_","c","o","n","n","e","c","t","i","o","n" >>
StdoutOneOnly   == << "(","1"," ","r","o","w",")" >>
StdoutLabelAndOne ==
    << "t","e","s","t","_","c","o","n","n","e","c","t","i","o","n","\n","1" >>

TestStdouts == { EmptyText, StdoutLabelOnly, StdoutOneOnly, StdoutLabelAndOne }

Families == { "debian", "centos", "unknown", "suse" }

\* ------------------------------------------------------------------- state
VARIABLES
    hosts,        \* self.hosts: the parsed host list
    pc,           \* where the program is
    idx,          \* run(): position of the for loop over self.hosts
    clients,      \* run(): dict host -> session
    loads,        \* run(): dict host -> load
    opened,       \* sessions whose connect() returned
    closed,       \* sessions that were close()d
    connLog,      \* outcome of each connect() call, in order
    cmds,         \* every exec_command() issued, in order
    target_host,  \* run(): the chosen host
    other_host,   \* run(): the peer host
    os_type,      \* the family detected / passed to install, configure
    step,         \* install_postgresql(): position in its command list
    retval,       \* value the last method returned
    result,       \* value run() returned
    exitCode      \* value main() returned to sys.exit(), -1 while running

vars == << hosts, pc, idx, clients, loads, opened, closed, connLog, cmds,
           target_host, other_host, os_type, step, retval, result, exitCode >>

\* one exec_command() call and what the caller read of its output
Cmd(s, c, path, peer, out, err) ==
    [sess |-> s, cmd |-> c, path |-> path, peer |-> peer, out |-> out, err |-> err]

CurClientFirst == clients[1][2]

\* clients[target_host]
CurClient == DictGet(clients, target_host)

\* ------------------------------------------------------------------- main
HostLists == UNION { [1..n -> HostNames] : n \in 1..MaxHosts }

Init ==
    /\ hosts \in HostLists
    /\ pc = "main"
    /\ idx = 1
    /\ clients = << >>
    /\ loads = << >>
    /\ opened = {}
    /\ closed = {}
    /\ connLog = << >>
    /\ cmds = << >>
    /\ target_host = None
    /\ other_host = None
    /\ os_type = None
    /\ step = 1
    /\ retval = None
    /\ result = None
    /\ exitCode = -1

ExitCodeZero(success) == 0

\* return 0 if success else 1
ExitCode(success) == IF success = "True" THEN 0 ELSE 1

\* main(): the host-count check and the call of run()
Main ==
    /\ pc = "main"
    /\ IF Len(hosts) # 2
       THEN /\ pc' = "exit"
            /\ exitCode' = 1
       ELSE /\ pc' = "connect"
            /\ UNCHANGED exitCode
    /\ UNCHANGED << hosts, idx, clients, loads, opened, closed, connLog, cmds,
                    target_host, other_host, os_type, step, retval, result >>

\* main(): run() returned
MainExit ==
    /\ pc = "run_return"
    /\ exitCode' = ExitCode(result)
    /\ pc' = "exit"
    /\ UNCHANGED << hosts, idx, clients, loads, opened, closed, connLog, cmds,
                    target_host, other_host, os_type, step, retval, result >>

\* ------------------------------------------------------- connect and sample
\* the exceptions get_ssh_client() catches
CaughtOnConnect == { "NoValidConnectionsError", "AuthenticationException", "socket.error" }

\* next position of the host loop: the loop body again, or the code after it
LoopNext == IF idx = Len(hosts) THEN "select" ELSE "connect"

ConnectNoClientCheck ==
    /\ pc = "connect"
    /\ \E o \in ConnOutcomes :
        /\ connLog' = Append(connLog, o)
        /\ IF o = "ok"
           THEN /\ opened' = opened \cup { idx }
                /\ clients' = DictSet(clients, hosts[idx], idx)
                /\ pc' = "sample"
                /\ UNCHANGED << idx, exitCode >>
           ELSE IF o \in CaughtOnConnect
           THEN /\ pc' = "sample"
                /\ UNCHANGED << opened, clients, idx, exitCode >>
           ELSE /\ pc' = "crashed"
                /\ exitCode' = 1
                /\ UNCHANGED << opened, clients, idx >>
    /\ UNCHANGED << hosts, loads, closed, cmds, target_host, other_host,
                    os_type, step, retval, result >>

\* run(): one get_ssh_client(host) call of the host loop
Connect ==
    /\ pc = "connect"
    /\ \E o \in ConnOutcomes :
        /\ connLog' = Append(connLog, o)
        /\ IF o = "ok"
           THEN /\ opened' = opened \cup { idx }
                /\ clients' = DictSet(clients, hosts[idx], idx)
                /\ pc' = "sample"
                /\ UNCHANGED << idx, exitCode >>
           ELSE IF o \in CaughtOnConnect
           THEN /\ pc' = LoopNext
                /\ idx' = idx + 1
                /\ UNCHANGED << opened, clients, exitCode >>
           ELSE /\ pc' = "crashed"
                /\ exitCode' = 1
                /\ UNCHANGED << opened, clients, idx >>
    /\ UNCHANGED << hosts, loads, closed, cmds, target_host, other_host,
                    os_type, step, retval, result >>

GetHostLoadZeroOnError(stdout) ==
    IF stdout # EmptyText
    THEN LET fields == Split(stdout)
         IN  IF fields = << >> THEN Finite(0)
             ELSE IF ParseFloat(fields[1]) = ValueError THEN Finite(0)
             ELSE ParseFloat(fields[1])
    ELSE Finite(0)

\* get_host_load(): the value returned for the stdout of "cat /proc/loadavg"
GetHostLoad(stdout) ==
    IF stdout # EmptyText
    THEN LET fields == Split(stdout)
         IN  IF fields = << >> THEN Inf                       \* IndexError, caught
             ELSE IF ParseFloat(fields[1]) = ValueError THEN Inf   \* caught
             ELSE ParseFloat(fields[1])
    ELSE Inf

\* run(): get_host_load(client) on the session just opened
Sample ==
    /\ pc = "sample"
    /\ \E out \in LoadStdouts :
        /\ cmds' = Append(cmds, Cmd(idx, "cat /proc/loadavg", None, None, out, EmptyText))
        /\ loads' = DictSet(loads, hosts[idx], GetHostLoad(out))
    /\ pc' = LoopNext
    /\ idx' = idx + 1
    /\ UNCHANGED << hosts, clients, opened, closed, connLog, target_host, other_host,
                    os_type, step, retval, result, exitCode >>

\* [h for h in self.hosts if h != target_host]
OtherHosts(t) == LET NotTarget(h) == h # t IN SelectSeq(hosts, NotTarget)

\* run(): the no-client check, min() and the choice of the peer
Select ==
    /\ pc = "select"
    /\ IF clients = << >>
       THEN /\ result' = "False"
            /\ pc' = "run_return"
            /\ UNCHANGED << target_host, other_host, exitCode >>
       ELSE /\ target_host' = PyMin(loads)
            /\ IF OtherHosts(target_host') = << >>
               THEN /\ pc' = "crashed"                        \* IndexError
                    /\ exitCode' = 1
                    /\ UNCHANGED << other_host, result >>
               ELSE /\ other_host' = OtherHosts(target_host')[1]
                    /\ pc' = "detect"
                    /\ UNCHANGED << result, exitCode >>
    /\ UNCHANGED << hosts, idx, clients, loads, opened, closed, connLog, cmds,
                    os_type, step, retval >>

\* ---------------------------------------------------------------- detect_os
KwDebian    == << "d","e","b","i","a","n" >>
KwCentos    == << "c","e","n","t","o","s" >>
KwAlmalinux == << "a","l","m","a","l","i","n","u","x" >>
KwRhel      == << "r","h","e","l" >>
KwWhich     == << "w","h","i","c","h",":" >>

MatchOsReleaseCaseSensitive(stdout) ==
    IF Contains(stdout, KwDebian) THEN "debian"
    ELSE IF \/ Contains(stdout, KwCentos)
            \/ Contains(stdout, KwAlmalinux)
            \/ Contains(stdout, KwRhel)
         THEN "centos"
         ELSE None

\* the family the os-release branches return, None when neither branch is taken
MatchOsRelease(stdout) ==
    IF Contains(ToLower(stdout), KwDebian) THEN "debian"
    ELSE IF \/ Contains(ToLower(stdout), KwCentos)
            \/ Contains(ToLower(stdout), KwAlmalinux)
            \/ Contains(ToLower(stdout), KwRhel)
         THEN "centos"
         ELSE None

WhichFoundNonEmpty(stdout) == stdout # EmptyText

\* stdout and not stdout.startswith("which:")
WhichFound(stdout) == stdout # EmptyText /\ ~ StartsWith(stdout, KwWhich)

\* detect_os(): "cat /etc/os-release" and its two branches
DetectOsRelease ==
    /\ pc = "detect"
    /\ \E out \in OsReleaseStdouts :
        /\ cmds' = Append(cmds, Cmd(CurClient, "cat /etc/os-release", None, None, out, EmptyText))
        /\ IF MatchOsRelease(out) # None
           THEN /\ retval' = MatchOsRelease(out)
                /\ pc' = "ret_detect"
           ELSE /\ pc' = "detect_apt"
                /\ UNCHANGED retval
    /\ UNCHANGED << hosts, idx, clients, loads, opened, closed, connLog, target_host,
                    other_host, os_type, step, result, exitCode >>

\* detect_os(): "which apt-get"
DetectApt ==
    /\ pc = "detect_apt"
    /\ \E out \in WhichStdouts :
        /\ cmds' = Append(cmds, Cmd(CurClient, "which apt-get", None, None, out, EmptyText))
        /\ IF WhichFound(out)
           THEN /\ retval' = "debian"
                /\ pc' = "ret_detect"
           ELSE /\ pc' = "detect_yum"
                /\ UNCHANGED retval
    /\ UNCHANGED << hosts, idx, clients, loads, opened, closed, connLog, target_host,
                    other_host, os_type, step, result, exitCode >>

\* detect_os(): "which yum" and the final return
DetectYum ==
    /\ pc = "detect_yum"
    /\ \E out \in WhichStdouts :
        /\ cmds' = Append(cmds, Cmd(CurClient, "which yum", None, None, out, EmptyText))
        /\ retval' = IF WhichFound(out) THEN "centos" ELSE "unknown"
    /\ pc' = "ret_detect"
    /\ UNCHANGED << hosts, idx, clients, loads, opened, closed, connLog, target_host,
                    other_host, os_type, step, result, exitCode >>

UnknownOsIgnored(os) == FALSE

\* if os_type == "unknown"
IsUnknownOs(os) == os = "unknown"

\* run(): os_type = detect_os(...) returned, and the unknown-OS check
AfterDetect ==
    /\ pc = "ret_detect"
    /\ os_type' = retval
    /\ IF IsUnknownOs(retval)
       THEN /\ result' = "False"
            /\ pc' = "run_return"
       ELSE /\ pc' = "install"
            /\ UNCHANGED result
    /\ step' = 1
    /\ UNCHANGED << hosts, idx, clients, loads, opened, closed, connLog, cmds,
                    target_host, other_host, retval, exitCode >>

\* ------------------------------------------------------- install_postgresql
DebianCommands ==
    << "apt-get update",
       "apt-get install -y postgresql postgresql-contrib",
       "systemctl status postgresql" >>

CentosCommands ==
    << "dnf install -y pgdg-redhat-repo-latest.noarch.rpm",
       "dnf -qy module disable postgresql",
       "dnf install -y postgresql14-server",
       "systemctl enable postgresql-14",
       "/usr/pgsql-14/bin/postgresql-14-setup initdb",
       "systemctl start postgresql-14",
       "systemctl status postgresql-14" >>

InstallBranchNoElse(os) == IF os = "debian" THEN "debian" ELSE "centos"

\* the branch of the if / elif / else on os_type
InstallBranch(os) ==
    IF os = "debian" THEN "debian"
    ELSE IF os = "centos" THEN "centos"
    ELSE "else"

InstallCommands(os) ==
    IF InstallBranch(os) = "debian" THEN DebianCommands ELSE CentosCommands

KwFailed == << "f","a","i","l","e","d" >>
KwError  == << "e","r","r","o","r" >>
KwERROR  == << "E","R","R","O","R" >>

InstallStepFailedCaseSensitive(stderr) ==
    Contains(stderr, KwFailed) \/ Contains(stderr, KwError)

\* "failed" in stderr.lower() or "error" in stderr.lower()
InstallStepFailed(stderr) ==
    Contains(ToLower(stderr), KwFailed) \/ Contains(ToLower(stderr), KwError)

\* install_postgresql(): one iteration of the command loop of either family,
\* with the return that ends the loop
InstallStep ==
    /\ pc = "install"
    /\ InstallBranch(os_type) # "else"
    /\ \E err \in StderrTexts :
        /\ cmds' = Append(cmds, Cmd(CurClient, InstallCommands(os_type)[step],
                                    None, None, EmptyText, err))
        /\ IF InstallStepFailed(err)
           THEN /\ retval' = "False"
                /\ pc' = "ret_install"
                /\ UNCHANGED step
           ELSE IF step = Len(InstallCommands(os_type))
           THEN /\ retval' = "True"
                /\ pc' = "ret_install"
                /\ UNCHANGED step
           ELSE /\ step' = step + 1
                /\ UNCHANGED << retval, pc >>
    /\ UNCHANGED << hosts, idx, clients, loads, opened, closed, connLog, target_host,
                    other_host, os_type, result, exitCode >>

\* install_postgresql(): the else branch
InstallUnsupported ==
    /\ pc = "install"
    /\ InstallBranch(os_type) = "else"
    /\ retval' = "False"
    /\ pc' = "ret_install"
    /\ UNCHANGED << hosts, idx, clients, loads, opened, closed, connLog, cmds,
                    target_host, other_host, os_type, step, result, exitCode >>

AfterInstallIgnoresFailure ==
    /\ pc = "ret_install"
    /\ pc' = "configure"
    /\ UNCHANGED << hosts, idx, clients, loads, opened, closed, connLog, cmds,
                    target_host, other_host, os_type, step, retval, result, exitCode >>

\* run(): install_postgresql() returned
AfterInstall ==
    /\ pc = "ret_install"
    /\ IF retval = "False"
       THEN /\ result' = "False"
            /\ pc' = "run_return"
       ELSE /\ pc' = "configure"
            /\ UNCHANGED result
    /\ UNCHANGED << hosts, idx, clients, loads, opened, closed, connLog, cmds,
                    target_host, other_host, os_type, step, retval, exitCode >>

\* ----------------------------------------------------- configure_postgresql
\* pg_hba_path of the family
PgHbaPath(os) ==
    IF os = "debian" THEN "/etc/postgresql/14/main/pg_hba.conf"
    ELSE "/var/lib/pgsql/14/data/pg_hba.conf"

\* postgresql_conf_path of the family
PostgresqlConfPath(os) ==
    IF os = "debian" THEN "/etc/postgresql/14/main/postgresql.conf"
    ELSE "/var/lib/pgsql/14/data/postgresql.conf"

\* restart_cmd of the family
RestartCmd(os) ==
    IF os = "debian" THEN "systemctl restart postgresql"
    ELSE "systemctl restart postgresql-14"

ConfigSupported(os) == os = "debian" \/ os = "centos"

\* configure_postgresql(): the else branch of the path selection
ConfigureUnsupported ==
    /\ pc = "configure"
    /\ ~ ConfigSupported(os_type)
    /\ retval' = "False"
    /\ pc' = "ret_configure"
    /\ UNCHANGED << hosts, idx, clients, loads, opened, closed, connLog, cmds,
                    target_host, other_host, os_type, step, result, exitCode >>

\* configure_postgresql(): the sed rewrite of listen_addresses
ConfigSed ==
    /\ pc = "configure"
    /\ ConfigSupported(os_type)
    /\ cmds' = Append(cmds, Cmd(CurClient, "sed -i listen_addresses",
                                PostgresqlConfPath(os_type), None, EmptyText, EmptyText))
    /\ pc' = "cfg_backup"
    /\ UNCHANGED << hosts, idx, clients, loads, opened, closed, connLog, target_host,
                    other_host, os_type, step, retval, result, exitCode >>

ConfigBackupSkipped ==
    /\ pc = "cfg_backup"
    /\ pc' = "cfg_append"
    /\ UNCHANGED << hosts, idx, clients, loads, opened, closed, connLog, cmds, target_host,
                    other_host, os_type, step, retval, result, exitCode >>

\* configure_postgresql(): the copy of pg_hba.conf to pg_hba.conf.bak
ConfigBackup ==
    /\ pc = "cfg_backup"
    /\ cmds' = Append(cmds, Cmd(CurClient, "cp pg_hba.conf pg_hba.conf.bak",
                                PgHbaPath(os_type), None, EmptyText, EmptyText))
    /\ pc' = "cfg_append"
    /\ UNCHANGED << hosts, idx, clients, loads, opened, closed, connLog, target_host,
                    other_host, os_type, step, retval, result, exitCode >>

\* configure_postgresql(): the here-document appended to pg_hba.conf
ConfigAppend ==
    /\ pc = "cfg_append"
    /\ cmds' = Append(cmds, Cmd(CurClient, "cat <<EOF >> pg_hba.conf",
                                PgHbaPath(os_type), other_host, EmptyText, EmptyText))
    /\ pc' = "cfg_user"
    /\ UNCHANGED << hosts, idx, clients, loads, opened, closed, connLog, target_host,
                    other_host, os_type, step, retval, result, exitCode >>

CreateUserFailedAnyCase(stderr) == Contains(ToLower(stderr), KwError)

\* "ERROR" in stderr
CreateUserFailed(stderr) == Contains(stderr, KwERROR)

\* configure_postgresql(): CREATE USER / ALTER USER and the check of its stderr
ConfigCreateUser ==
    /\ pc = "cfg_user"
    /\ \E err \in StderrTexts :
        /\ cmds' = Append(cmds, Cmd(CurClient, "psql CREATE USER student",
                                    None, None, EmptyText, err))
        /\ IF CreateUserFailed(err)
           THEN /\ retval' = "False"
                /\ pc' = "ret_configure"
           ELSE /\ pc' = "cfg_restart"
                /\ UNCHANGED retval
    /\ UNCHANGED << hosts, idx, clients, loads, opened, closed, connLog, target_host,
                    other_host, os_type, step, result, exitCode >>

\* configure_postgresql(): the restart and the final return
ConfigRestart ==
    /\ pc = "cfg_restart"
    /\ cmds' = Append(cmds, Cmd(CurClient, RestartCmd(os_type), None, None,
                                EmptyText, EmptyText))
    /\ retval' = "True"
    /\ pc' = "ret_configure"
    /\ UNCHANGED << hosts, idx, clients, loads, opened, closed, connLog, target_host,
                    other_host, os_type, step, result, exitCode >>

\* run(): configure_postgresql() returned
AfterConfigure ==
    /\ pc = "ret_configure"
    /\ IF retval = "False"
       THEN /\ result' = "False"
            /\ pc' = "run_return"
       ELSE /\ pc' = "test"
            /\ UNCHANGED result
    /\ UNCHANGED << hosts, idx, clients, loads, opened, closed, connLog, cmds,
                    target_host, other_host, os_type, step, retval, exitCode >>

\* ---------------------------------------------------------- test_postgresql
KwTestConnection == << "t","e","s","t","_","c","o","n","n","e","c","t","i","o","n" >>
KwOne == << "1" >>

TestPassedEither(stdout) == Contains(stdout, KwTestConnection) \/ Contains(stdout, KwOne)

\* "test_connection" in stdout and "1" in stdout
TestPassed(stdout) == Contains(stdout, KwTestConnection) /\ Contains(stdout, KwOne)

\* test_postgresql(): the SELECT and the check of its stdout
TestQuery ==
    /\ pc = "test"
    /\ \E out \in TestStdouts, err \in TestStderrs :
        /\ cmds' = Append(cmds, Cmd(CurClient, "psql SELECT 1 as test_connection",
                                    None, None, out, err))
        /\ retval' = IF TestPassed(out) THEN "True" ELSE "False"
    /\ pc' = "ret_test"
    /\ UNCHANGED << hosts, idx, clients, loads, opened, closed, connLog, target_host,
                    other_host, os_type, step, result, exitCode >>

AfterTestIgnoresResult ==
    /\ pc = "ret_test"
    /\ closed' = closed \cup DictValues(clients)
    /\ result' = "True"
    /\ pc' = "run_return"
    /\ UNCHANGED << hosts, idx, clients, loads, opened, connLog, cmds,
                    target_host, other_host, os_type, step, retval, exitCode >>

\* run(): test_postgresql() returned; on success the sessions are closed
AfterTest ==
    /\ pc = "ret_test"
    /\ IF retval = "False"
       THEN /\ result' = "False"
            /\ UNCHANGED closed
       ELSE /\ closed' = closed \cup DictValues(clients)
            /\ result' = "True"
    /\ pc' = "run_return"
    /\ UNCHANGED << hosts, idx, clients, loads, opened, connLog, cmds,
                    target_host, other_host, os_type, step, retval, exitCode >>

\* ------------------------------------------------------------ specifications
\* the program, started from main(); run() never calls install_postgresql or
\* configure_postgresql with a family it does not support, so their else
\* branches are steps of SpecCall only
Next ==
    \/ Main
    \/ Connect
    \/ Sample
    \/ Select
    \/ DetectOsRelease
    \/ DetectApt
    \/ DetectYum
    \/ AfterDetect
    \/ InstallStep
    \/ AfterInstall
    \/ ConfigSed
    \/ ConfigBackup
    \/ ConfigAppend
    \/ ConfigCreateUser
    \/ ConfigRestart
    \/ AfterConfigure
    \/ TestQuery
    \/ AfterTest
    \/ MainExit

Spec == Init /\ [][Next]_vars

\* one method of RemotePostgresInstaller called on an open session with
\* arguments of the caller's choice
InitCall ==
    /\ pc \in { "detect", "install", "configure", "test" }
    /\ target_host \in HostNames
    /\ other_host \in HostNames
    /\ hosts = << target_host, other_host >>
    /\ os_type \in Families
    /\ idx = 1
    /\ clients = << << target_host, 1 >> >>
    /\ loads = << >>
    /\ opened = { 1 }
    /\ closed = {}
    /\ connLog = << "ok" >>
    /\ cmds = << >>
    /\ step = 1
    /\ retval = None
    /\ result = None
    /\ exitCode = -1

NextCall ==
    \/ DetectOsRelease
    \/ DetectApt
    \/ DetectYum
    \/ InstallStep
    \/ InstallUnsupported
    \/ ConfigureUnsupported
    \/ ConfigSed
    \/ ConfigBackup
    \/ ConfigAppend
    \/ ConfigCreateUser
    \/ ConfigRestart
    \/ TestQuery

SpecCall == InitCall /\ [][NextCall]_vars

\* ------------------------------------------------------------ the command log
DetectCmdNames == { "cat /etc/os-release", "which apt-get", "which yum" }
InstallCmdNames ==
    { DebianCommands[i] : i \in 1..Len(DebianCommands) }
        \cup { CentosCommands[i] : i \in 1..Len(CentosCommands) }
SedCmdName == "sed -i listen_addresses"
CpCmdName == "cp pg_hba.conf pg_hba.conf.bak"
AppendCmdName == "cat <<EOF >> pg_hba.conf"
CreateUserCmdName == "psql CREATE USER student"
ConfigCmdNames ==
    { SedCmdName, CpCmdName, AppendCmdName, CreateUserCmdName,
      "systemctl restart postgresql", "systemctl restart postgresql-14" }
TestCmdNames == { "psql SELECT 1 as test_connection" }
ProvisionCmdNames == InstallCmdNames \cup ConfigCmdNames \cup TestCmdNames

\* the logged commands whose name is in S, in order
Issued(S) == LET InS(c) == c.cmd \in S IN SelectSeq(cmds, InS)

RunEnded == pc \in { "run_return", "exit" }
Terminated == pc \in { "run_return", "exit", "crashed" }

\* ------------------------------------------------------------------- claims

\* C1: in every terminal state of run() (Done, or Failed at any phase) every
\* session opened during the run has been closed.
C1_SessionsClosedAtEnd ==
    (RunEnded /\ result # None) => opened \subseteq closed

\* C2: a selected target connected and has a finite load sample; when every
\* connected host's sample is infinity the run fails without issuing any
\* detection, install, configure or verify command.
C2_TargetHasFiniteLoad ==
    /\ target_host # None =>
           /\ DictHas(clients, target_host)
           /\ IsFinite(DictGet(loads, target_host))
    /\ (\A i \in 1..Len(loads) : ~ IsFinite(loads[i][2])) =>
           /\ Issued(DetectCmdNames \cup ProvisionCmdNames) = << >>
           /\ pc = "exit" => exitCode = 1

\* C3: when at least one load sample is finite, the target is the host with
\* the minimum sampled load, and of two hosts with the same load the one that
\* comes first in the host list.
C3_TargetIsFirstMinimum ==
    (target_host # None /\ \E i \in 1..Len(loads) : IsFinite(loads[i][2])) =>
        \E i \in 1..Len(hosts) :
            /\ hosts[i] = target_host
            /\ DictHas(loads, target_host)
            /\ \A j \in 1..Len(hosts) :
                 DictHas(loads, hosts[j]) =>
                    /\ ~ LoadLT(DictGet(loads, hosts[j]), DictGet(loads, target_host))
                    /\ j < i => LoadLT(DictGet(loads, target_host), DictGet(loads, hosts[j]))

\* C3 witness: both hosts sampled the same finite load and the first was chosen.
C3_Witness ==
    /\ pc = "detect"
    /\ Len(loads) = 2
    /\ IsFinite(loads[1][2])
    /\ loads[1][2] = loads[2][2]
    /\ target_host = hosts[1]
    /\ hosts[1] # hosts[2]

\* C4: for every two-entry host list, whenever run() selects a target it also
\* determines a peer, which is the other supplied host and never the target.
C4_PeerIsOtherHost ==
    target_host # None =>
        /\ other_host # None
        /\ other_host # target_host
        /\ \E i \in 1..Len(hosts) : hosts[i] = other_host

\* C5: a connection failure of any kind to one host only drops that host: the
\* run ends at the connection stage only when every host failed to connect,
\* and when exactly one host connected it is the target and the host that
\* failed is the peer.
C5_ConnectFailureDropsOnlyThatHost ==
    /\ (Terminated /\ Len(hosts) = 2 /\ target_host = None) =>
           /\ Len(connLog) = 2
           /\ \A i \in 1..2 : connLog[i] # "ok"
    /\ \A i \in 1..2 :
         ( /\ Len(connLog) = 2
           /\ connLog[i] = "ok"
           /\ connLog[3 - i] # "ok"
           /\ pc \notin { "connect", "sample", "select" } ) =>
               /\ target_host = hosts[i]
               /\ other_host = hosts[3 - i]

\* C6: when both hosts fail to connect, the run fails before OS detection with
\* exit code 1 and no remote command has been executed on any host.
C6_NoConnectionNoCommand ==
    ( /\ Terminated
      /\ Len(hosts) = 2
      /\ \A i \in 1..Len(connLog) : connLog[i] # "ok" ) =>
          /\ cmds = << >>
          /\ target_host = None
          /\ os_type = None
          /\ pc = "run_return" => result = "False"
          /\ pc \in { "exit", "crashed" } => exitCode = 1

\* C6 witness: both connection attempts failed and the process exited with 1.
C6_Witness ==
    /\ pc = "exit"
    /\ Len(connLog) = 2
    /\ connLog[1] = "NoValidConnectionsError"
    /\ connLog[2] = "AuthenticationException"
    /\ exitCode = 1

\* C7: when OS detection on the target returns unknown, the run fails right
\* after the detection phase: no install, configure or verify command is ever
\* issued.
C7_UnknownOsFailsAtOnce ==
    os_type = "unknown" =>
        /\ RunEnded
        /\ result = "False"
        /\ Issued(ProvisionCmdNames) = << >>
        /\ pc = "exit" => exitCode = 1

\* C7 witness: a run that detected an unknown OS and exited.
C7_Witness ==
    /\ os_type = "unknown"
    /\ pc = "exit"
    /\ cmds[Len(cmds)].cmd = "which yum"

\* C8: install_postgresql called with a family other than debian or centos
\* issues no remote command and returns failure.
C8_UnsupportedFamilyInstallsNothing ==
    (pc \in { "install", "ret_install" } /\ os_type \notin { "debian", "centos" }) =>
        /\ cmds = << >>
        /\ pc = "ret_install" => retval = "False"

\* C8 witness: install_postgresql returned for the family "unknown".
C8_Witness ==
    /\ pc = "ret_install"
    /\ os_type = "unknown"
    /\ retval = "False"

\* the sampled error streams that contain "failed" or "error" in some letter case
FailingStderrs == { StderrFailedMixed, StderrErrorLower, StderrErrorUpper }

\* the declared command list of a supported family
DeclaredInstall(os) == IF os = "debian" THEN DebianCommands ELSE CentosCommands

\* C9: for both supported families install_postgresql issues its steps in the
\* declared order, stops at the first step whose error stream contains
\* "failed" or "error" in any letter case and returns failure, and returns
\* success exactly when no step's error stream contains either.
C9_InstallStopsAtFirstFailure ==
    os_type \in { "debian", "centos" } =>
        LET I == Issued(InstallCmdNames)
            L == DeclaredInstall(os_type)
        IN  /\ Len(I) <= Len(L)
            /\ \A i \in 1..Len(I) : I[i].cmd = L[i] /\ I[i].sess = CurClient
            /\ \A i \in 1..(Len(I) - 1) : I[i].err \notin FailingStderrs
            /\ pc = "install" =>
                 /\ Len(I) = step - 1
                 /\ \A i \in 1..Len(I) : I[i].err \notin FailingStderrs
            /\ pc = "ret_install" =>
                 /\ Len(I) >= 1
                 /\ retval \in { "True", "False" }
                 /\ retval = "True" <=> \A i \in 1..Len(I) : I[i].err \notin FailingStderrs
                 /\ retval = "True" => Len(I) = Len(L)
                 /\ retval = "False" => I[Len(I)].err \in FailingStderrs

\* C9 witness: the third centos step printed "E: Failed" and install returned
\* failure.
C9_Witness ==
    /\ pc = "ret_install"
    /\ os_type = "centos"
    /\ retval = "False"
    /\ Len(Issued(InstallCmdNames)) = 3
    /\ cmds[Len(cmds)].err = StderrFailedMixed

\* C10: in every configure_postgresql call on a supported family the
\* listen-address rewrite and the pg_hba.conf backup are issued, in that order,
\* before the command that appends the access rules, whatever any command
\* returns.
C10_RewriteAndBackupBeforeAppend ==
    LET K == Issued(ConfigCmdNames)
    IN  /\ \A i \in 1..Len(K) :
             K[i].cmd = AppendCmdName =>
                /\ i = 3
                /\ K[1].cmd = SedCmdName /\ K[1].sess = K[3].sess
                /\ K[2].cmd = CpCmdName /\ K[2].sess = K[3].sess
                /\ K[2].path = K[3].path
        /\ (pc \in { "cfg_user", "cfg_restart", "ret_configure" }
              /\ os_type \in { "debian", "centos" }) =>
                Len(K) >= 3 /\ K[3].cmd = AppendCmdName

\* C10 witness: configure_postgresql returned failure after the append.
C10_Witness ==
    /\ pc = "ret_configure"
    /\ retval = "False"
    /\ Len(Issued(ConfigCmdNames)) = 4
    /\ Issued(ConfigCmdNames)[3].cmd = AppendCmdName

\* C11: on a supported family configure_postgresql reports failure if and
\* only if the error stream of the role-creation step contains "ERROR" in
\* upper case; what the rewrite, backup, append and restart commands print
\* never changes the result, and a lower-case "error" does not cause failure.
C11_OnlyUpperCaseErrorFailsConfigure ==
    (pc = "ret_configure" /\ os_type \in { "debian", "centos" }) =>
        LET K == Issued(ConfigCmdNames)
        IN  /\ Len(K) >= 4
            /\ K[4].cmd = CreateUserCmdName
            /\ retval \in { "True", "False" }
            /\ retval = "False" <=> K[4].err = StderrErrorUpper
            /\ K[4].err \in { EmptyText, StderrErrorLower, StderrFailedMixed }
                 => retval = "True"

\* C11 witness: the role creation printed a lower-case "error:" and configure
\* returned success after the restart.
C11_Witness ==
    /\ pc = "ret_configure"
    /\ retval = "True"
    /\ LET K == Issued(ConfigCmdNames)
       IN  /\ Len(K) = 5
           /\ K[4].err = StderrErrorLower

\* C12: test_postgresql returns success if and only if the standard output of
\* the query contains both "test_connection" and "1"; any other output, the
\* empty one included, yields failure, and the error stream has no effect.
C12_VerifyNeedsLabelAndOne ==
    pc = "ret_test" =>
        LET T == Issued(TestCmdNames)
        IN  /\ Len(T) = 1
            /\ retval \in { "True", "False" }
            /\ retval = "True" <=> T[1].out = StdoutLabelAndOne
            /\ T[1].out \in { EmptyText, StdoutLabelOnly, StdoutOneOnly }
                 => retval = "False"

\* C12 witness: the query printed the label and "1" with "ERROR" on its error
\* stream and the result is success.
C12_Witness ==
    /\ pc = "ret_test"
    /\ retval = "True"
    /\ cmds[Len(cmds)].out = StdoutLabelAndOne
    /\ cmds[Len(cmds)].err = StderrErrorUpper

\* the log shows a complete install of the family without a failing step
InstallSucceeded ==
    LET I == Issued(InstallCmdNames)
    IN  /\ os_type \in { "debian", "centos" }
        /\ Len(I) = Len(DeclaredInstall(os_type))
        /\ \A i \in 1..Len(I) : I[i].err \notin FailingStderrs

\* the log shows a complete configure whose role creation printed no "ERROR"
ConfigureSucceeded ==
    LET K == Issued(ConfigCmdNames)
    IN  /\ Len(K) = 5
        /\ K[4].cmd = CreateUserCmdName
        /\ K[4].err # StderrErrorUpper

\* the log shows a verify query that printed the label and "1"
VerifySucceeded ==
    LET T == Issued(TestCmdNames)
    IN  Len(T) = 1 /\ T[1].out = StdoutLabelAndOne

\* C13: the exit code is 0 exactly when a target was selected, its family was
\* detected as supported, and install, configure and verify all succeeded; in
\* every other case it is 1, and a host argument that is not two hosts exits
\* with 1 before any connection is attempted.
C13_ExitCodeZeroIffDone ==
    pc \in { "exit", "crashed" } =>
        /\ exitCode \in { 0, 1 }
        /\ exitCode = 0 <=>
             /\ Len(hosts) = 2
             /\ target_host # None
             /\ InstallSucceeded
             /\ ConfigureSucceeded
             /\ VerifySucceeded
        /\ Len(hosts) # 2 => exitCode = 1 /\ connLog = << >> /\ cmds = << >>

\* C13 witness: a run that provisioned its target and exited with 0.
C13_Witness ==
    /\ pc = "exit"
    /\ exitCode = 0
    /\ result = "True"
    /\ VerifySucceeded

\* kw occurs in t in some letter case
HasKeyword(t, kw) == Contains(ToLower(t), kw)

HasRhelKeyword(t) ==
    HasKeyword(t, KwCentos) \/ HasKeyword(t, KwAlmalinux) \/ HasKeyword(t, KwRhel)

\* a "which" probe that found nothing: no output, or output starting "which:"
ProbeFoundNothing(t) == t = EmptyText \/ StartsWith(t, KwWhich)

\* C14 as stated: detect_os returns debian whenever the os-release output
\* contains "debian" in any letter case, centos whenever it contains "centos",
\* "almalinux" or "rhel" in any letter case, and unknown only when the
\* os-release match and both binary probes fail.
C14_FamilyFromAnyKeyword ==
    pc = "ret_detect" =>
        LET D == Issued(DetectCmdNames)
        IN  /\ HasKeyword(D[1].out, KwDebian) => retval = "debian"
            /\ HasRhelKeyword(D[1].out) => retval = "centos"
            /\ retval = "unknown" =>
                 /\ ~ HasKeyword(D[1].out, KwDebian)
                 /\ ~ HasRhelKeyword(D[1].out)
                 /\ Len(D) = 3
                 /\ ProbeFoundNothing(D[2].out)
                 /\ ProbeFoundNothing(D[3].out)

\* C14 amended: detect_os returns debian whenever the os-release output
\* contains "debian" in any letter case, centos whenever it contains "centos",
\* "almalinux" or "rhel" in any letter case and does not contain "debian", and
\* unknown only when the os-release match and both binary probes fail.
C14_DebianKeywordFirst ==
    pc = "ret_detect" =>
        LET D == Issued(DetectCmdNames)
        IN  /\ HasKeyword(D[1].out, KwDebian) => retval = "debian"
            /\ (HasRhelKeyword(D[1].out) /\ ~ HasKeyword(D[1].out, KwDebian))
                 => retval = "centos"
            /\ retval = "unknown" =>
                 /\ ~ HasKeyword(D[1].out, KwDebian)
                 /\ ~ HasRhelKeyword(D[1].out)
                 /\ Len(D) = 3
                 /\ ProbeFoundNothing(D[2].out)
                 /\ ProbeFoundNothing(D[3].out)

\* C14 witness: os-release printed "AlmaLinux" and detect_os returned centos
\* after that single command.
C14_Witness ==
    /\ pc = "ret_detect"
    /\ retval = "centos"
    /\ cmds[Len(cmds)].cmd = "cat /etc/os-release"
    /\ cmds[Len(cmds)].out = << "A","l","m","a","L","i","n","u","x" >>

\* C15: detect_os issues its probes in the order os-release, which apt-get,
\* which yum, each only if every earlier one yielded no match: an os-release
\* match issues exactly one command, and which yum is issued only after which
\* apt-get printed nothing or a line starting "which:".
C15_ProbesInOrderUntilMatch ==
    LET D == Issued(DetectCmdNames)
        Order == << "cat /etc/os-release", "which apt-get", "which yum" >>
    IN  /\ Len(D) <= 3
        /\ \A i \in 1..Len(D) : D[i].cmd = Order[i]
        /\ Len(D) >= 2 =>
             ~ HasKeyword(D[1].out, KwDebian) /\ ~ HasRhelKeyword(D[1].out)
        /\ Len(D) = 3 => ProbeFoundNothing(D[2].out)
        /\ pc = "ret_detect" =>
             /\ Len(D) >= 1
             /\ (HasKeyword(D[1].out, KwDebian) \/ HasRhelKeyword(D[1].out)) => Len(D) = 1
             /\ Len(D) = 2 => ~ ProbeFoundNothing(D[2].out) /\ retval = "debian"

\* C15 witness: which apt-get printed "which: no", which yum found the binary.
C15_Witness ==
    /\ pc = "ret_detect"
    /\ retval = "centos"
    /\ LET D == Issued(DetectCmdNames)
       IN  /\ Len(D) = 3
           /\ StartsWith(D[2].out, KwWhich)
           /\ ~ ProbeFoundNothing(D[3].out)

LoadCmdNames == { "cat /proc/loadavg" }

\* the order in which detect_os issues its probes
DetectOrder == << "cat /etc/os-release", "which apt-get", "which yum" >>

\* the order in which configure_postgresql issues its commands
DeclaredConfigure(os) ==
    << SedCmdName, CpCmdName, AppendCmdName, CreateUserCmdName,
       IF os = "debian" THEN "systemctl restart postgresql"
                        ELSE "systemctl restart postgresql-14" >>

\* C16: no step is retried and failure is final: each list entry's load probe
\* and each detection, install, configure and verify command is issued at most
\* once, a phase starts only after the previous phase reported success, and
\* after a failed phase no further remote command is issued.
C16_NoRetryAndFailureIsFinal ==
    LET L == Issued(LoadCmdNames)
        D == Issued(DetectCmdNames)
        I == Issued(InstallCmdNames)
        K == Issued(ConfigCmdNames)
        T == Issued(TestCmdNames)
        InstallOk == /\ os_type \in { "debian", "centos" }
                     /\ Len(I) = Len(DeclaredInstall(os_type))
                     /\ \A i \in 1..Len(I) : I[i].err \notin FailingStderrs
        ConfigureOk == Len(K) = 5 /\ K[4].err # StderrErrorUpper
        VerifyOk == Len(T) = 1 /\ T[1].out = StdoutLabelAndOne
    IN  /\ cmds = L \o D \o I \o K \o T
        /\ \A i \in 1..(Len(L) - 1) : L[i].sess < L[i + 1].sess
        /\ \A i \in 1..Len(D) : i <= 3 /\ D[i].cmd = DetectOrder[i]
        /\ \A i \in 1..Len(I) :
              /\ os_type \in { "debian", "centos" }
              /\ i <= Len(DeclaredInstall(os_type))
              /\ I[i].cmd = DeclaredInstall(os_type)[i]
        /\ \A i \in 1..Len(K) : i <= 5 /\ K[i].cmd = DeclaredConfigure(os_type)[i]
        /\ Len(T) <= 1
        /\ K # << >> => InstallOk
        /\ T # << >> => InstallOk /\ ConfigureOk
        /\ result = "False" =>
             /\ RunEnded
             /\ target_host # None => ~ (InstallOk /\ ConfigureOk /\ VerifyOk)
        /\ result = "True" => InstallOk /\ ConfigureOk /\ VerifyOk

\* C16 witness: the second debian install step failed, the run exited, and that
\* step is the last command of the run.
C16_Witness ==
    /\ pc = "exit"
    /\ result = "False"
    /\ os_type = "debian"
    /\ cmds[Len(cmds)].cmd = DebianCommands[2]
    /\ cmds[Len(cmds)].err \in FailingStderrs

\* C17: every configure_postgresql call on a supported family that edits the
\* configuration files also issues the restart command, after the role-creation
\* step, before it returns.
C17_EditsAreFollowedByRestart ==
    (pc = "ret_configure" /\ os_type \in { "debian", "centos" }) =>
        LET K == Issued(ConfigCmdNames)
        IN  /\ Len(K) = 5
            /\ K[4].cmd = CreateUserCmdName
            /\ K[5].cmd \in { "systemctl restart postgresql",
                              "systemctl restart postgresql-14" }

\* the load probes of the log
LoadCmds == Issued(LoadCmdNames)

\* C18: get_host_load never raises: for empty output (also what a failed
\* execution yields) and for output whose first field is no number it returns
\* infinity, and a host whose sample is infinity is never the target while the
\* other host has a finite sample.
C18_UnreadableLoadIsInfinity ==
    /\ \A i \in 1..Len(LoadCmds) :
         LET c == LoadCmds[i]
             h == hosts[c.sess]
         IN  (\A j \in (i + 1)..Len(LoadCmds) : hosts[LoadCmds[j].sess] # h) =>
                /\ DictHas(loads, h)
                /\ c.out \in { EmptyText, BlankText, CatErrorText }
                     => DictGet(loads, h) = Inf
                /\ \A n \in 0..MaxLoad :
                     c.out = LoadText(n) => DictGet(loads, h) = Finite(100 * n + 50)
    /\ pc = "crashed" =>
         \/ connLog[Len(connLog)] = "SSHException"
         \/ target_host # None /\ hosts[1] = hosts[2]
    /\ (target_host # None /\ DictGet(loads, target_host) = Inf) =>
         \A i \in 1..Len(loads) : loads[i][2] = Inf

\* C18 witness: the first host printed a blank line, the second a load, and the
\* second host is the target.
C18_Witness ==
    /\ pc = "detect"
    /\ Len(loads) = 2
    /\ LoadCmds[1].out = BlankText
    /\ loads[1][2] = Inf
    /\ IsFinite(loads[2][2])
    /\ target_host = hosts[2]

\* C19 as stated: no load probe is issued on any host until the connection
\* attempts to every supplied host have finished.
C19_ConnectAllBeforeSampling ==
    LoadCmds # << >> => Len(connLog) = Len(hosts)

\* the connection attempts that succeeded
OkAttempts == { i \in 1..Len(connLog) : connLog[i] = "ok" }

\* C19 amended: hosts are connected and sampled one after the other: a host's
\* load probe is issued only on a session whose connection succeeded, right
\* after that connection and before the next host is tried, and no detection
\* command is issued until the connection attempts to both hosts have finished.
C19_SampleFollowsOwnConnect ==
    /\ \A i \in 1..Len(LoadCmds) : LoadCmds[i].sess \in OkAttempts
    /\ pc = "sample" =>
         /\ connLog[Len(connLog)] = "ok"
         /\ Len(LoadCmds) = Cardinality(OkAttempts) - 1
    /\ pc # "sample" => Len(LoadCmds) = Cardinality(OkAttempts)
    /\ Issued(DetectCmdNames) # << >> => Len(connLog) = Len(hosts)

\* C19 witness: the first host has been sampled and the second connection has
\* not been attempted yet.
C19_Witness ==
    /\ pc = "connect"
    /\ idx = 2
    /\ Len(connLog) = 1
    /\ Len(LoadCmds) = 1

\* C20: only the target is provisioned: a session other than the target's
\* receives at most one command, its load probe, and every detection, install,
\* configure and verify command is issued on the target's session.
C20_OnlyTargetProvisioned ==
    /\ \A i \in 1..Len(cmds) :
         cmds[i].cmd \notin LoadCmdNames =>
            /\ target_host # None
            /\ DictHas(clients, target_host)
            /\ cmds[i].sess = DictGet(clients, target_host)
    /\ \A s \in opened :
         (target_host = None \/ s # DictGet(clients, target_host)) =>
            Cardinality({ i \in 1..Len(cmds) : cmds[i].sess = s }) <= 1

\* C20 witness: both hosts connected, the second was the target and the run
\* succeeded.
C20_Witness ==
    /\ pc = "exit"
    /\ result = "True"
    /\ Len(clients) = 2
    /\ target_host = hosts[2]

====
